---- MODULE Spec2Model ----
(* Real-time messaging layer of PoeticExchange: the WebSocket handler of  *)
(* registerRoutes (src/server/db.ts:44-120) over the in-memory message    *)
(* store MemStorage (src/server/storage.ts:317-352).                       *)
(*                                                                         *)
(* A frame handler is an async function: it runs synchronously up to its  *)
(* `await storage.x(...)` (action OnMessage) and its continuation runs     *)
(* later (action Resume); any other handler may run in between.           *)
(* MemStorage executes the body of createMessage / markMessagesAsRead     *)
(* synchronously inside the call, so the store changes in OnMessage; the  *)
(* IStorage promise may also reject, which is the outcome ok = FALSE.     *)
(* The history route GET /api/messages/:otherUserId (db.ts:328-342), the   *)
(* second caller of markMessagesAsRead, is part of SpecHistory.            *)
EXTENDS Integers, Sequences, FiniteSets, TLC

\* ---------------------------------------------------------------- bounds
NumSockets == 2
NumUsers == 2
MaxFrames == 3
MaxFetches == 1

Sockets == 1..NumSockets
Users == 1..NumUsers

\* ------------------------------------------------------- JavaScript values
\* `null`: the initial value of the closure variable userId.
Null == -1
\* `undefined`: a field the frame does not carry (data.userId, data.receiverId,
\* data.senderId of a frame without that field).
Undef == 0
\* No socket: the result of connections.get for a key without entry.
NoSocket == 0
\* A content that is not a string (for instance a number or a missing field).
NotAString == "<not a string>"
\* imageData values: missing in the frame, and the null that replaces it.
NoImage == "<undefined>"
NullImage == "<null>"

\* JavaScript truthiness of a userId value: null, undefined are falsy.
Truthy(u) == u \in Users

\* ------------------------------------------------------------ inbound frames
Frame(t, u, r, sd, c, i) ==
    [type |-> t, userId |-> u, receiverId |-> r, senderId |-> sd,
     content |-> c, imageData |-> i]

\* A frame whose text is not JSON: JSON.parse throws.
BadJson == Frame("<bad json>", Undef, Undef, Undef, NotAString, NoImage)

AuthFrames == {Frame("auth", u, Undef, Undef, NotAString, NoImage) : u \in Users \cup {Undef}}

\* The frames of a client that adds a senderId field of its own to a message.
SpoofFrames == {Frame("message", Undef, 1, NumUsers, "hi", NoImage)}

MessageFrames ==
    {Frame("message", Undef, r, Undef, "hi", NoImage) : r \in Users}
    \cup {Frame("message", Undef, 1, Undef, "", NoImage),
          Frame("message", Undef, 1, Undef, NotAString, NoImage)}
    \cup SpoofFrames

MarkReadFrames == {Frame("mark_read", Undef, Undef, sd, NotAString, NoImage) : sd \in Users}

BogusFrames == {Frame("bogus", Undef, Undef, Undef, NotAString, NoImage)}

Frames == {BadJson} \cup AuthFrames \cup MessageFrames \cup MarkReadFrames \cup BogusFrames

\* JSON.parse(message.toString()) succeeds.
JsonParses(d) == d # BadJson

\* ------------------------------------------------------------------ state
VARIABLES
    readyState,     \* socket -> "NONE" (not connected yet), "OPEN", "CLOSED"
    userId,         \* socket -> the closure variable userId of its handler
    connections,    \* the registry Map<number, WebSocket>: key -> socket
    messages,       \* MemStorage.messages, in id (= insertion) order
    nextMessageId,  \* MemStorage.nextMessageId
    now,            \* the last reading of the server clock (new Date())
    pending,        \* handlers suspended at their await
    frames,         \* history: every inbound frame handled, in arrival order
    sent,           \* history: every outbound write (socket.send call)
    fetches         \* GET /api/messages/:otherUserId requests, in arrival order

vars == <<readyState, userId, connections, messages, nextMessageId, now,
          pending, frames, sent, fetches>>

NoMessage ==
    [id |-> 0, senderId |-> Undef, receiverId |-> Undef, content |-> "",
     imageData |-> NullImage, createdAt |-> 0, isRead |-> FALSE]

RegistryKeys == Users \cup {Undef}

Init ==
    /\ readyState = [s \in Sockets |-> "NONE"]
    /\ userId = [s \in Sockets |-> Null]
    /\ connections = [k \in RegistryKeys |-> NoSocket]
    /\ messages = << >>
    /\ nextMessageId = 1
    /\ now = 0
    /\ pending = {}
    /\ frames = << >>
    /\ sent = << >>
    /\ fetches = << >>


\* ------------------------------------------------------ connection registry
\* A bind that keeps an existing entry instead of overwriting it.
Bind_KeepFirst(reg, k, s) == IF reg[k] # NoSocket THEN reg ELSE [reg EXCEPT ![k] = s]

\* A bind that also drops every other entry of the socket.
Bind_Exclusive(reg, k, s) ==
    [j \in DOMAIN reg |-> IF j = k THEN s ELSE IF reg[j] = s THEN NoSocket ELSE reg[j]]

\* connections.set(userId, ws)
Bind(reg, k, s) == [reg EXCEPT ![k] = s]

\* connections.delete(userId)
Unbind(reg, k) == [reg EXCEPT ![k] = NoSocket]

\* connections.get(key)
Get(reg, k) == IF k \in DOMAIN reg THEN reg[k] ELSE NoSocket

\* A liveness test that forgets the readyState comparison.
IsLive_NoReadyState(rs, w) == w # NoSocket

\* recipientWs && recipientWs.readyState === WebSocket.OPEN
IsLive(rs, w) == w # NoSocket /\ rs[w] = "OPEN"

\* A close handler that forgets to delete the entry.
CloseUnbind_Forgets(reg, u) == reg

\* ws.on('close'): if (userId) { connections.delete(userId) }
CloseUnbind(reg, u) == IF Truthy(u) THEN Unbind(reg, u) ELSE reg

\* ------------------------------------------------------------ message store
\* data.imageData || null
ImageOrNull(i) == IF i = NoImage \/ i = "" THEN NullImage ELSE i

\* insertMessageSchema.parse: senderId and receiverId are numbers, content is
\* a string (the empty string passes), imageData is a string or null.
ZodOk(sender, d) ==
    /\ sender \in Users
    /\ d.receiverId \in Users
    /\ d.content # NotAString

\* An id counter that is never advanced.
NextId_Stuck(n) == n

\* this.nextMessageId++: the value of the counter after the call.
NextId(n) == n + 1

\* A record that takes the sender from the frame when the frame names one.
NewMessage_ClientSender(id, t, sender, d) ==
    [id |-> id, senderId |-> IF d.senderId \in Users THEN d.senderId ELSE sender,
     receiverId |-> d.receiverId, content |-> d.content,
     imageData |-> ImageOrNull(d.imageData), createdAt |-> t, isRead |-> FALSE]

\* The record MemStorage.createMessage builds.
NewMessage(id, t, sender, d) ==
    [id |-> id, senderId |-> sender, receiverId |-> d.receiverId,
     content |-> d.content, imageData |-> ImageOrNull(d.imageData),
     createdAt |-> t, isRead |-> FALSE]

\* A store that puts the new message in front of the older ones.
CreateMessage_Prepend(msgs, m) == <<m>> \o msgs

\* MemStorage.createMessage: this.messages.set(id, message)
CreateMessage(msgs, m) == Append(msgs, m)

\* Array.prototype.sort with the comparator dateA.getTime() - dateB.getTime():
\* a stable sort by createdAt, here as an insertion sort that puts an element
\* behind every element that is not younger.
RECURSIVE InsertByDate(_, _)
InsertByDate(sorted, m) ==
    IF sorted = << >> THEN <<m>>
    ELSE IF sorted[Len(sorted)].createdAt <= m.createdAt THEN Append(sorted, m)
    ELSE Append(InsertByDate(SubSeq(sorted, 1, Len(sorted) - 1), m), sorted[Len(sorted)])

RECURSIVE SortByDate(_)
SortByDate(list) ==
    IF list = << >> THEN << >>
    ELSE InsertByDate(SortByDate(SubSeq(list, 1, Len(list) - 1)), list[Len(list)])

\* A filter that keeps one direction of the conversation only.
Between_OneWay(m, user1Id, user2Id) == m.senderId = user1Id /\ m.receiverId = user2Id

\* The filter of getMessagesBetweenUsers.
Between(m, user1Id, user2Id) ==
    \/ (m.senderId = user1Id /\ m.receiverId = user2Id)
    \/ (m.senderId = user2Id /\ m.receiverId = user1Id)

\* MemStorage.getMessagesBetweenUsers
GetMessagesBetweenUsers(msgs, user1Id, user2Id) ==
    LET Keep(m) == Between(m, user1Id, user2Id) IN SortByDate(SelectSeq(msgs, Keep))

\* A markMessagesAsRead that stores {isRead: true} without the spread of the
\* old record.
MarkMessagesAsRead_NoSpread(msgs, receiver, sender) ==
    [i \in DOMAIN msgs |->
        IF msgs[i].receiverId = receiver /\ msgs[i].senderId = sender /\ ~msgs[i].isRead
        THEN [NoMessage EXCEPT !.isRead = TRUE]
        ELSE msgs[i]]

\* A markMessagesAsRead that matches the pair in either direction.
MarkMessagesAsRead_BothDirections(msgs, receiver, sender) ==
    [i \in DOMAIN msgs |->
        IF Between(msgs[i], receiver, sender) /\ ~msgs[i].isRead
        THEN [msgs[i] EXCEPT !.isRead = TRUE]
        ELSE msgs[i]]

\* A markMessagesAsRead that ignores the sender.
MarkMessagesAsRead_AnySender(msgs, receiver, sender) ==
    [i \in DOMAIN msgs |->
        IF msgs[i].receiverId = receiver /\ ~msgs[i].isRead
        THEN [msgs[i] EXCEPT !.isRead = TRUE]
        ELSE msgs[i]]

\* A markMessagesAsRead that inverts the flag of every matching message.
MarkMessagesAsRead_Toggle(msgs, receiver, sender) ==
    [i \in DOMAIN msgs |->
        IF msgs[i].receiverId = receiver /\ msgs[i].senderId = sender
        THEN [msgs[i] EXCEPT !.isRead = ~msgs[i].isRead]
        ELSE msgs[i]]

\* MemStorage.markMessagesAsRead
MarkMessagesAsRead(msgs, receiver, sender) ==
    [i \in DOMAIN msgs |->
        IF msgs[i].receiverId = receiver /\ msgs[i].senderId = sender /\ ~msgs[i].isRead
        THEN [msgs[i] EXCEPT !.isRead = TRUE]
        ELSE msgs[i]]

\* ------------------------------------------------------------ outbound writes
\* One socket.send call: `open` is the socket's state at the write, `ok` is
\* FALSE when the write failed (send threw).
Out(to, type, fid, msg, by, ok) ==
    [to |-> to, type |-> type, fid |-> fid, msg |-> msg, by |-> by,
     open |-> (readyState[to] = "OPEN"), ok |-> ok]

\* A catch block that only logs.
Catch_Silent(s, fid) == << >>

\* A catch block that reports the error twice.
Catch_Twice(s, fid) ==
    <<Out(s, "error", fid, NoMessage, Undef, TRUE), Out(s, "error", fid, NoMessage, Undef, TRUE)>>

\* The catch block: ws.send({type: 'error', ...}) to the socket of the handler.
Catch(s, fid) == <<Out(s, "error", fid, NoMessage, Undef, TRUE)>>

\* The history record of one inbound frame: uid is the closure variable userId
\* when the frame arrived, call the store operation the handler awaits, callOk
\* whether its promise resolves, saved the message createMessage returned.
FrameRec(s, d, outcome, call, callOk, saved) ==
    [sock |-> s, data |-> d, uid |-> userId[s], outcome |-> outcome,
     call |-> call, callOk |-> callOk, saved |-> saved]

\* A handler that goes on after a rejected store call.
Rejected_Never(f) == FALSE

\* `await` throws when the promise of the store call rejects.
Rejected(f) == ~f.callOk

\* ------------------------------------------------------------------ actions
\* wss.on('connection'): a new socket, its closure variable userId is null.
Connect(s) ==
    /\ readyState[s] = "NONE"
    /\ readyState' = [readyState EXCEPT ![s] = "OPEN"]
    /\ userId' = [userId EXCEPT ![s] = Null]
    /\ UNCHANGED <<connections, messages, nextMessageId, now, pending, frames, sent, fetches>>

\* new Date(): the server clock never runs backwards; two readings may fall in
\* the same millisecond (t = last) or the clock has advanced (t = last + 1).
ClockReadings(last) == {last, last + 1}

\* A server that handles no frame while a store call is pending.
CanReceive_Serial(s) == readyState[s] = "OPEN" /\ pending = {}

\* A frame can arrive on an open socket ('message' is not emitted after 'close').
CanReceive(s) == readyState[s] = "OPEN"

\* JSON.parse throws: the catch writes one error frame to ws.
OnBadJson(s, d) ==
    /\ CanReceive(s)
    /\ ~JsonParses(d)
    /\ frames' = Append(frames, FrameRec(s, d, "parse_error", "none", FALSE, NoMessage))
    /\ sent' = sent \o Catch(s, Len(frames) + 1)
    /\ UNCHANGED <<readyState, userId, connections, messages, nextMessageId, now, pending,
                   fetches>>

\* if (data.type === 'auth') { userId = data.userId; connections.set(userId, ws) }
OnAuth(s, d) ==
    /\ CanReceive(s)
    /\ JsonParses(d)
    /\ d.type = "auth"
    /\ userId' = [userId EXCEPT ![s] = d.userId]
    /\ connections' = Bind(connections, d.userId, s)
    /\ frames' = Append(frames, FrameRec(s, d, "auth", "none", FALSE, NoMessage))
    /\ UNCHANGED <<readyState, messages, nextMessageId, now, pending, sent, fetches>>

\* Branches that lack the `&& userId` guard.
Authenticated_Always(s) == TRUE

\* The guard of the message and mark_read branches: `&& userId`.
Authenticated(s) == Truthy(userId[s])

\* if (data.type === 'message' && userId) { parse; await createMessage ... }
OnChatMessage(s, d) ==
    /\ CanReceive(s)
    /\ JsonParses(d)
    /\ d.type = "message"
    /\ Authenticated(s)
    /\ IF ~ZodOk(userId[s], d)
       THEN \* ZodError: the catch writes one error frame to ws
            /\ frames' = Append(frames, FrameRec(s, d, "zod_error", "none", FALSE, NoMessage))
            /\ sent' = sent \o Catch(s, Len(frames) + 1)
            /\ UNCHANGED <<messages, nextMessageId, now, pending>>
       ELSE \E ok \in BOOLEAN, t \in ClockReadings(now) :
            LET m == NewMessage(nextMessageId, t, userId[s], d) IN
            /\ IF ok
               THEN /\ messages' = CreateMessage(messages, m)
                    /\ nextMessageId' = NextId(nextMessageId)
                    /\ now' = t
               ELSE UNCHANGED <<messages, nextMessageId, now>>
            /\ frames' = Append(frames, FrameRec(s, d, "await", "createMessage", ok,
                                                 IF ok THEN m ELSE NoMessage))
            /\ pending' = pending \cup {Len(frames) + 1}
            /\ UNCHANGED sent
    /\ UNCHANGED <<readyState, userId, connections, fetches>>

\* if (data.type === 'mark_read' && userId) { await markMessagesAsRead ... }
OnMarkRead(s, d) ==
    /\ CanReceive(s)
    /\ JsonParses(d)
    /\ d.type = "mark_read"
    /\ Authenticated(s)
    /\ \E ok \in BOOLEAN :
        /\ messages' = IF ok THEN MarkMessagesAsRead(messages, userId[s], d.senderId)
                       ELSE messages
        /\ frames' = Append(frames, FrameRec(s, d, "await", "markMessagesAsRead", ok, NoMessage))
    /\ pending' = pending \cup {Len(frames) + 1}
    /\ UNCHANGED <<readyState, userId, connections, nextMessageId, now, sent, fetches>>

\* No branch of the handler applies: an unknown type, or a message / mark_read
\* frame while userId is falsy. Nothing happens.
OnNoBranch(s, d) ==
    /\ CanReceive(s)
    /\ JsonParses(d)
    /\ d.type # "auth"
    /\ ~(d.type = "message" /\ Authenticated(s))
    /\ ~(d.type = "mark_read" /\ Authenticated(s))
    /\ frames' = Append(frames, FrameRec(s, d, "ignored", "none", FALSE, NoMessage))
    /\ UNCHANGED <<readyState, userId, connections, messages, nextMessageId, now,
                   pending, sent, fetches>>

\* ws.on('message'): the synchronous part of the handler for frame d on s.
OnMessage(s, d) ==
    \/ OnBadJson(s, d)
    \/ OnAuth(s, d)
    \/ OnChatMessage(s, d)
    \/ OnMarkRead(s, d)
    \/ OnNoBranch(s, d)

Done(fid, outcome) == [frames EXCEPT ![fid].outcome = outcome]

\* The continuation of the message branch after `await storage.createMessage`.
ResumeMessage(fid) ==
    LET f == frames[fid]
        w == Get(connections, f.data.receiverId)
        push(ok) == Out(w, "message", fid, f.saved, Undef, ok)
        conf == Out(f.sock, "message_sent", fid, f.saved, Undef, TRUE)
        err == Catch(f.sock, fid)
    IN
    /\ fid \in pending
    /\ f.call = "createMessage"
    /\ pending' = pending \ {fid}
    /\ IF Rejected(f)
       THEN /\ sent' = sent \o err
            /\ frames' = Done(fid, "store_fail")
       ELSE IF IsLive(readyState, w)
       THEN \E throws \in BOOLEAN :
            IF throws
            THEN /\ sent' = (sent \o <<push(FALSE)>>) \o err
                 /\ frames' = Done(fid, "push_throw")
            ELSE /\ sent' = sent \o <<push(TRUE), conf>>
                 /\ frames' = Done(fid, "ok")
       ELSE /\ sent' = Append(sent, conf)
            /\ frames' = Done(fid, "ok")
    /\ UNCHANGED <<readyState, userId, connections, messages, nextMessageId, now, fetches>>

\* The continuation of the mark_read branch after `await markMessagesAsRead`.
ResumeMarkRead(fid) ==
    LET f == frames[fid]
        w == Get(connections, f.data.senderId)
        push(ok) == Out(w, "messages_read", fid, NoMessage, userId[f.sock], ok)
        err == Catch(f.sock, fid)
    IN
    /\ fid \in pending
    /\ f.call = "markMessagesAsRead"
    /\ pending' = pending \ {fid}
    /\ IF Rejected(f)
       THEN /\ sent' = sent \o err
            /\ frames' = Done(fid, "store_fail")
       ELSE IF IsLive(readyState, w)
       THEN \E throws \in BOOLEAN :
            IF throws
            THEN /\ sent' = (sent \o <<push(FALSE)>>) \o err
                 /\ frames' = Done(fid, "push_throw")
            ELSE /\ sent' = Append(sent, push(TRUE))
                 /\ frames' = Done(fid, "ok")
       ELSE /\ sent' = sent
            /\ frames' = Done(fid, "ok")
    /\ UNCHANGED <<readyState, userId, connections, messages, nextMessageId, now, fetches>>

\* ws.on('close'): if (userId) connections.delete(userId)
Close(s) ==
    /\ readyState[s] = "OPEN"
    /\ readyState' = [readyState EXCEPT ![s] = "CLOSED"]
    /\ connections' = CloseUnbind(connections, userId[s])
    /\ UNCHANGED <<userId, messages, nextMessageId, now, pending, frames, sent, fetches>>

Next ==
    \/ \E s \in Sockets : Connect(s)
    \/ \E s \in Sockets, d \in Frames : Len(frames) < MaxFrames /\ OnMessage(s, d)
    \/ \E fid \in pending : ResumeMessage(fid)
    \/ \E fid \in pending : ResumeMarkRead(fid)
    \/ \E s \in Sockets : Close(s)

Spec == Init /\ [][Next]_vars

\* Every store call completes: the promise a handler awaits is settled and the
\* event loop then runs the continuation of the handler.
StoreCallsComplete ==
    \A fid \in 1..MaxFrames : WF_vars(ResumeMessage(fid)) /\ WF_vars(ResumeMarkRead(fid))

SpecLive == Spec /\ StoreCallsComplete

\* ------------------------------------------------- established connections
\* The state the server is in once every socket has connected and socket i has
\* sent {type: 'auth', userId: i} (for each i that is a user), with the history
\* of those frames; MaxFrames further frames then arrive, all of them frames
\* a client of the application sends (src/client/src/hooks/use-chat.tsx): an
\* auth frame with a user id, a message with a text, a mark_read.
Established == 1..(IF NumSockets < NumUsers THEN NumSockets ELSE NumUsers)

AuthRec(i) ==
    [sock |-> i, data |-> Frame("auth", i, Undef, Undef, NotAString, NoImage),
     uid |-> Null, outcome |-> "auth", call |-> "none", callOk |-> FALSE,
     saved |-> NoMessage]

InitEstablished ==
    /\ readyState = [s \in Sockets |-> "OPEN"]
    /\ userId = [s \in Sockets |-> IF s \in Established THEN s ELSE Null]
    /\ connections = [k \in RegistryKeys |-> IF k \in Established THEN k ELSE NoSocket]
    /\ messages = << >>
    /\ nextMessageId = 1
    /\ now = 0
    /\ pending = {}
    /\ frames = [i \in Established |-> AuthRec(i)]
    /\ sent = << >>
    /\ fetches = << >>

ChatFrames ==
    {d \in AuthFrames : d.userId \in Users}
    \cup {d \in MessageFrames \ SpoofFrames : d.content = "hi"}
    \cup MarkReadFrames

MoreFrames == Len(frames) < Cardinality(Established) + MaxFrames

NextEstablished ==
    \/ \E s \in Sockets, d \in ChatFrames : MoreFrames /\ OnAuth(s, d)
    \/ \E s \in Sockets, d \in ChatFrames : MoreFrames /\ OnChatMessage(s, d)
    \/ \E s \in Sockets, d \in ChatFrames : MoreFrames /\ OnMarkRead(s, d)
    \/ \E fid \in pending : ResumeMessage(fid)
    \/ \E fid \in pending : ResumeMarkRead(fid)
    \/ \E s \in Sockets : Close(s)

SpecEstablished == InitEstablished /\ [][NextEstablished]_vars

\* --------------------------------------------------- message history (HTTP)
\* app.get('/api/messages/:otherUserId', ensureAuthenticated, ...): the
\* synchronous part of the handler for a request of the logged-in user u, up
\* to `await storage.getMessagesBetweenUsers(currentUserId, otherUserId)`.
\* stage is the position of the handler, callOk whether the promise it awaits
\* resolves, body the list the store returned, at the number of frames
\* handled when markMessagesAsRead was called.
HttpGetMessages(u, o) ==
    /\ Len(fetches) < MaxFetches
    /\ \E ok \in BOOLEAN :
        fetches' = Append(fetches,
            [user |-> u, other |-> o, stage |-> "get", callOk |-> ok,
             body |-> IF ok THEN GetMessagesBetweenUsers(messages, u, o) ELSE << >>,
             at |-> -1])
    /\ UNCHANGED <<readyState, userId, connections, messages, nextMessageId, now,
                   pending, frames, sent>>

\* The continuation after the first await: `await
\* storage.markMessagesAsRead(currentUserId, otherUserId)`, or, when the first
\* call was rejected, the catch with res.status(500).
HttpMarkRead(h) ==
    LET f == fetches[h] IN
    /\ f.stage = "get"
    /\ IF ~f.callOk
       THEN /\ fetches' = [fetches EXCEPT ![h].stage = "500"]
            /\ UNCHANGED messages
       ELSE \E ok \in BOOLEAN :
            /\ messages' = IF ok THEN MarkMessagesAsRead(messages, f.user, f.other)
                           ELSE messages
            /\ fetches' = [fetches EXCEPT ![h].stage = "mark", ![h].callOk = ok,
                                          ![h].at = Len(frames)]
    /\ UNCHANGED <<readyState, userId, connections, nextMessageId, now, pending, frames, sent>>

\* The continuation after the second await: res.json(messages), or the catch
\* with res.status(500). Nothing is written to a WebSocket.
HttpRespond(h) ==
    LET f == fetches[h] IN
    /\ f.stage = "mark"
    /\ fetches' = [fetches EXCEPT ![h].stage = IF f.callOk THEN "200" ELSE "500"]
    /\ UNCHANGED <<readyState, userId, connections, messages, nextMessageId, now,
                   pending, frames, sent>>

\* The WebSocket server together with the history route, for the frames a
\* client of the application sends.
NextHistory ==
    \/ \E s \in Sockets : Connect(s)
    \/ \E s \in Sockets, d \in ChatFrames : Len(frames) < MaxFrames /\ OnAuth(s, d)
    \/ \E s \in Sockets, d \in ChatFrames : Len(frames) < MaxFrames /\ OnChatMessage(s, d)
    \/ \E s \in Sockets, d \in ChatFrames : Len(frames) < MaxFrames /\ OnMarkRead(s, d)
    \/ \E s \in Sockets, d \in ChatFrames : Len(frames) < MaxFrames /\ OnNoBranch(s, d)
    \/ \E fid \in pending : ResumeMessage(fid)
    \/ \E fid \in pending : ResumeMarkRead(fid)
    \/ \E s \in Sockets : Close(s)
    \/ \E u \in Users, o \in Users : HttpGetMessages(u, o)
    \/ \E h \in DOMAIN fetches : HttpMarkRead(h)
    \/ \E h \in DOMAIN fetches : HttpRespond(h)

SpecHistory == Init /\ [][NextHistory]_vars

\* ===================================================================== claims
\* The handler of frame fid has run to completion.
Completed(fid) == fid \in DOMAIN frames /\ fid \notin pending

\* The outbound writes of a given type caused by frame fid.
SentFor(fid, type) == {i \in DOMAIN sent : sent[i].fid = fid /\ sent[i].type = type}

\* All outbound writes caused by frame fid.
SentBy(fid) == {i \in DOMAIN sent : sent[i].fid = fid}

\* lookup(k) of the specification: the bound socket if it is open, else absent.
LiveBinding(k) ==
    IF connections[k] # NoSocket /\ readyState[connections[k]] = "OPEN"
    THEN connections[k] ELSE NoSocket

\* The auth frames (indices in frames) that named user u.
AuthsOf(u) == {a \in DOMAIN frames : frames[a].data.type = "auth" /\ frames[a].data.userId = u}

Max(S) == CHOOSE x \in S : \A y \in S : y <= x

NoClose == \A s \in Sockets : readyState[s] # "CLOSED"

\* A message frame that passed the guard and the validation: createMessage was called.
IsCreate(fid) == fid \in DOMAIN frames /\ frames[fid].call = "createMessage"

\* --------------------------------------------------------------------- C1
\* C1 (P2 persist-before-deliver): every `message` push and every
\* `message_sent` confirmation belongs to a frame whose createMessage call has
\* already succeeded and carries the message that call stored; a frame whose
\* createMessage failed has neither a push nor a confirmation.
C1_PersistBeforeDeliver ==
    /\ \A i \in DOMAIN sent :
        sent[i].type \in {"message", "message_sent"} =>
            /\ IsCreate(sent[i].fid)
            /\ frames[sent[i].fid].callOk
            /\ sent[i].msg = frames[sent[i].fid].saved
            /\ sent[i].msg.id \in DOMAIN messages
            /\ messages[sent[i].msg.id].id = sent[i].msg.id
    /\ \A fid \in DOMAIN frames :
        (IsCreate(fid) /\ ~frames[fid].callOk) =>
            SentFor(fid, "message") \cup SentFor(fid, "message_sent") = {}

\* A message frame whose createMessage failed has been handled to its end.
C1_Witness ==
    \E fid \in DOMAIN frames :
        IsCreate(fid) /\ ~frames[fid].callOk /\ Completed(fid) /\ SentFor(fid, "error") # {}

\* --------------------------------------------------------------------- C2
\* C2 (P3 unconditional confirmation), as claimed: once the handler of a
\* message frame whose createMessage succeeded has completed, exactly one
\* `message_sent` carrying the persisted message was written to the socket of
\* the frame.
C2_ExactlyOneConfirmation ==
    \A fid \in DOMAIN frames :
        (IsCreate(fid) /\ frames[fid].callOk /\ Completed(fid)) =>
            /\ Cardinality(SentFor(fid, "message_sent")) = 1
            /\ \A i \in SentFor(fid, "message_sent") :
                sent[i].to = frames[fid].sock /\ sent[i].msg = frames[fid].saved

\* --------------------------------------------------------------------- C3
\* C3 (delivery failure is swallowed), as claimed: when the write of the
\* `message` push failed, the sender still gets `message_sent` and no `error`.
C3_DeliveryFailureSwallowed ==
    \A fid \in DOMAIN frames :
        (Completed(fid) /\ \E i \in SentFor(fid, "message") : ~sent[i].ok) =>
            /\ SentFor(fid, "message_sent") # {}
            /\ SentFor(fid, "error") = {}

\* --------------------------------------------------------------------- C4
\* C4 (P4 conditional push): in the step that completes the handler of a
\* persisted message, a `message` push is written if and only if the registry,
\* as it is in that step, binds the receiver to an open socket; there is then
\* exactly one push and it goes to that socket.
C4_Step(fid) ==
    LET r == frames[fid].saved.receiverId
        w == LiveBinding(r)
        new == {i \in DOMAIN sent' : i > Len(sent) /\ sent'[i].type = "message"}
    IN  (fid \in pending /\ fid \notin pending' /\ IsCreate(fid) /\ frames[fid].callOk) =>
            /\ \A i \in DOMAIN sent : sent'[i] = sent[i]
            /\ IF w # NoSocket
               THEN Cardinality(new) = 1 /\ \A i \in new : sent'[i].to = w /\ sent'[i].fid = fid
               ELSE new = {}

\* C4: every step that completes the handler of a persisted message pushes to
\* the socket bound and open in that step, and to no other.
C4_ConditionalPush == [][\A fid \in DOMAIN frames : C4_Step(fid)]_vars

\* A push reached a socket that authenticated as the receiver only after the
\* message frame had arrived: the binding read is the one at delivery.
C4_Witness ==
    \E m \in DOMAIN frames, a \in DOMAIN frames :
        /\ m < a
        /\ IsCreate(m) /\ frames[m].callOk
        /\ AuthsOf(frames[m].saved.receiverId) = {a}
        /\ \E i \in SentFor(m, "message") : sent[i].to = frames[a].sock /\ sent[i].ok

\* --------------------------------------------------------------------- C5
\* C5 (P1 at-most-one live binding): as long as no socket has closed, the
\* registry entry of a user that some auth frame named is the socket of the
\* most recent such frame, and lookup returns that socket.
C5_LatestBindingWins ==
    \A u \in Users :
        (NoClose /\ AuthsOf(u) # {}) =>
            /\ connections[u] = frames[Max(AuthsOf(u))].sock
            /\ LiveBinding(u) = frames[Max(AuthsOf(u))].sock

\* Two sockets authenticated as the same user, the later one holds the entry.
C5_Witness ==
    \E u \in Users : \E a \in AuthsOf(u), b \in AuthsOf(u) :
        /\ a < b /\ frames[a].sock # frames[b].sock
        /\ NoClose
        /\ connections[u] = frames[b].sock

\* --------------------------------------------------------------------- C6
\* C6 (an entry is removed only by the close of its owner), as claimed: while
\* the socket of the most recent auth frame for U is open and still
\* authenticated as U, the registry binds U to it, whatever other socket closes.
C6_OnlyOwnerCloseRemoves ==
    \A u \in Users :
        AuthsOf(u) # {} =>
            LET s == frames[Max(AuthsOf(u))].sock IN
            (readyState[s] = "OPEN" /\ userId[s] = u) => connections[u] = s

\* --------------------------------------------------------------------- C7
\* C7 (close unbinds): the close of a socket authenticated as u removes the
\* entry of u; once the only socket that ever authenticated as U has closed,
\* lookup(U) is absent; no `message` or `messages_read` push is ever written to
\* a socket that is not open; no frame is accepted on a closed socket.
C7_ClosedUnreachable ==
    /\ \A u \in Users :
        (\E s \in Sockets :
            /\ AuthsOf(u) # {}
            /\ \A a \in AuthsOf(u) : frames[a].sock = s
            /\ readyState[s] = "CLOSED") => LiveBinding(u) = NoSocket
    /\ \A i \in DOMAIN sent : sent[i].type \in {"message", "messages_read"} => sent[i].open

C7_CloseStep ==
    /\ \A s \in Sockets :
        (readyState[s] = "OPEN" /\ readyState'[s] = "CLOSED" /\ Truthy(userId[s])) =>
            connections'[userId[s]] = NoSocket
    /\ Len(frames') > Len(frames) => readyState[frames'[Len(frames')].sock] = "OPEN"

\* C7: a closed socket is unbound, unreachable for pushes, and receives no frame.
C7_CloseUnbinds == []C7_ClosedUnreachable /\ [][C7_CloseStep]_vars

\* The only socket that authenticated as some user has closed while a message
\* addressed to that user was waiting for its delivery attempt, which then
\* pushed nothing.
C7_Witness ==
    \E u \in Users, s \in Sockets :
        /\ AuthsOf(u) # {}
        /\ \A a \in AuthsOf(u) : frames[a].sock = s
        /\ readyState[s] = "CLOSED"
        /\ \E m \in DOMAIN frames :
            /\ IsCreate(m) /\ frames[m].callOk /\ Completed(m)
            /\ frames[m].saved.receiverId = u
            /\ m > Max(AuthsOf(u))
            /\ SentFor(m, "message") = {}

\* --------------------------------------------------------------------- C8
\* C8 (error containment): a frame that is not JSON, a message frame that
\* fails validation and a rejected store call each produce exactly one write,
\* an `error` frame to the socket of the frame; the step that reports the error
\* leaves readyState, the closure variables and the registry as they were.
ErrorOutcomes == {"parse_error", "zod_error", "store_fail"}

C8_OneError ==
    \A fid \in DOMAIN frames :
        frames[fid].outcome \in ErrorOutcomes =>
            /\ Cardinality(SentBy(fid)) = 1
            /\ \A i \in SentBy(fid) : sent[i].type = "error" /\ sent[i].to = frames[fid].sock

C8_ErrorStep ==
    (\E fid \in DOMAIN frames' :
        /\ frames'[fid].outcome \in ErrorOutcomes
        /\ (fid \notin DOMAIN frames \/ frames[fid].outcome \notin ErrorOutcomes)) =>
            UNCHANGED <<readyState, userId, connections>>

\* C8: one error frame per failed frame, and the failure changes no connection state.
C8_ErrorContainment == []C8_OneError /\ [][C8_ErrorStep]_vars

\* A socket sent a frame that is not JSON, got its error, and then
\* authenticated with success.
C8_Witness ==
    \E b \in DOMAIN frames, a \in DOMAIN frames :
        /\ b < a
        /\ frames[b].sock = frames[a].sock
        /\ frames[b].outcome = "parse_error"
        /\ frames[b].uid = Null
        /\ Cardinality(SentFor(b, "error")) = 1
        /\ frames[a].data.type = "auth" /\ frames[a].data.userId \in Users
        /\ userId[frames[a].sock] = frames[a].data.userId
        /\ connections[frames[a].data.userId] = frames[a].sock
        /\ readyState[frames[a].sock] = "OPEN"

\* --------------------------------------------------------------------- C9
\* C9 (unknown type is reported), as claimed: a frame that parses and whose
\* type is none of auth, message, mark_read has an `error` frame written to
\* its socket.
C9_UnknownTypeReported ==
    \A fid \in DOMAIN frames :
        (JsonParses(frames[fid].data)
         /\ frames[fid].data.type \notin {"auth", "message", "mark_read"}) =>
            \E i \in SentFor(fid, "error") : sent[i].to = frames[fid].sock

\* -------------------------------------------------------------------- C10
\* C10 (authenticate-before-use): the step that handles a message or mark_read
\* frame on a socket whose userId is still falsy changes nothing: no store
\* call, no message created or marked, registry unchanged, nothing written.
C10_Step ==
    (/\ Len(frames') = Len(frames) + 1
     /\ frames'[Len(frames')].data.type \in {"message", "mark_read"}
     /\ ~Truthy(userId[frames'[Len(frames')].sock])) =>
        /\ frames'[Len(frames')].call = "none"
        /\ UNCHANGED <<readyState, userId, connections, messages, nextMessageId, now,
                       pending, sent>>

\* C10: a message or mark_read frame before authentication has no effect.
C10_AuthenticateBeforeUse == [][C10_Step]_vars

\* A message frame and a mark_read frame were handled on sockets that had not
\* authenticated.
C10_Witness ==
    \E m \in DOMAIN frames, r \in DOMAIN frames :
        /\ frames[m].data.type = "message" /\ frames[m].uid = Null
        /\ frames[r].data.type = "mark_read" /\ ~Truthy(frames[r].uid)

\* -------------------------------------------------------------------- C11
\* The frame whose handler the step starts, and the frames whose handler it
\* completes.
Arrives == Len(frames') = Len(frames) + 1

Arrived == frames'[Len(frames')]

IsMarkRead(fid) == fid \in DOMAIN frames /\ frames[fid].call = "markMessagesAsRead"

\* The messages_read writes a step adds.
NewReceipts == {i \in DOMAIN sent' : i > Len(sent) /\ sent'[i].type = "messages_read"}

\* The store part of the mark-read effect: after a resolved
\* markMessagesAsRead(R, S) every stored message from S to R is read.
C11_Marks ==
    (Arrives /\ Arrived.call = "markMessagesAsRead" /\ Arrived.callOk) =>
        \A i \in DOMAIN messages' :
            (messages'[i].receiverId = Arrived.uid
             /\ messages'[i].senderId = Arrived.data.senderId) => messages'[i].isRead

\* The receipt part without the `by` field: one messages_read to the open
\* socket bound to S when the handler completes, none when there is none.
C11_Receipt(fid) ==
    (fid \in pending /\ fid \notin pending' /\ IsMarkRead(fid) /\ frames[fid].callOk) =>
        IF LiveBinding(frames[fid].data.senderId) # NoSocket
        THEN /\ Cardinality(NewReceipts) = 1
             /\ \A i \in NewReceipts :
                 sent'[i].to = LiveBinding(frames[fid].data.senderId) /\ sent'[i].fid = fid
        ELSE NewReceipts = {}

\* The receipt names R, the identity the connection had when the frame arrived.
C11_ReceiptBy(fid) ==
    (fid \in pending /\ fid \notin pending' /\ IsMarkRead(fid)) =>
        \A i \in NewReceipts : sent'[i].by = frames[fid].uid

\* C11 (mark-read effect), as claimed: a mark_read {senderId: S} on a
\* connection authenticated as R marks every stored message from S to R read
\* and pushes exactly one messages_read {by: R} to the open socket bound to S,
\* none if there is no such socket.
C11_MarkReadEffect ==
    [][/\ C11_Marks
       /\ \A fid \in DOMAIN frames : C11_Receipt(fid) /\ C11_ReceiptBy(fid)]_vars

\* Everything of C11 but the `by` field holds of the handler.
C11_WithoutBy == [][C11_Marks /\ \A fid \in DOMAIN frames : C11_Receipt(fid)]_vars

\* -------------------------------------------------------------------- C12
\* Frames fid - 1 and fid are resolved mark_read frames for the same
\* (receiver, sender) pair.
SecondMark(fs, fid) ==
    /\ fid \in DOMAIN fs /\ fid - 1 \in DOMAIN fs
    /\ fs[fid].call = "markMessagesAsRead" /\ fs[fid].callOk
    /\ fs[fid - 1].call = "markMessagesAsRead" /\ fs[fid - 1].callOk
    /\ fs[fid].uid = fs[fid - 1].uid
    /\ fs[fid].data.senderId = fs[fid - 1].data.senderId

\* Marking a pair twice gives the store that marking it once gives.
C12_Idempotent ==
    \A r \in Users, sd \in Users :
        MarkMessagesAsRead(MarkMessagesAsRead(messages, r, sd), r, sd)
            = MarkMessagesAsRead(messages, r, sd)

C12_Step ==
    /\ (Arrives /\ SecondMark(frames', Len(frames'))) => messages' = messages
    /\ \A fid \in DOMAIN frames :
        (fid \in pending /\ fid \notin pending' /\ SecondMark(frames, fid)
         /\ LiveBinding(frames[fid].data.senderId) # NoSocket) =>
            \E i \in NewReceipts :
                sent'[i].to = LiveBinding(frames[fid].data.senderId) /\ sent'[i].fid = fid

\* C12 (P5 read idempotence): the second of two consecutive mark_read frames
\* for the same (receiver, sender) pair changes no stored message, and its
\* handler still writes messages_read to the sender's open socket.
C12_ReadIdempotence == []C12_Idempotent /\ [][C12_Step]_vars

\* A message was marked read by the first of two consecutive mark_read frames
\* and both frames produced a receipt.
C12_Witness ==
    \E fid \in DOMAIN frames :
        /\ SecondMark(frames, fid)
        /\ Completed(fid) /\ Completed(fid - 1)
        /\ \E i \in DOMAIN messages :
            /\ messages[i].receiverId = frames[fid].uid
            /\ messages[i].senderId = frames[fid].data.senderId
            /\ messages[i].isRead
        /\ SentFor(fid, "messages_read") # {}
        /\ SentFor(fid - 1, "messages_read") # {}

\* -------------------------------------------------------------------- C13
\* Frames a and b arrived in this order on one socket and both were persisted.
PersistedInOrder(a, b) ==
    /\ a \in DOMAIN frames /\ b \in DOMAIN frames /\ a < b
    /\ frames[a].sock = frames[b].sock
    /\ IsCreate(a) /\ frames[a].callOk
    /\ IsCreate(b) /\ frames[b].callOk

\* The place of the message with the given id in the store's order.
PlaceOf(id) == CHOOSE k \in DOMAIN messages : messages[k].id = id

\* C13 (P6 order within a connection), as claimed: messages of one socket are
\* persisted in arrival order with strictly increasing ids and strictly
\* increasing timestamps.
C13_StrictTimestamps ==
    \A a \in DOMAIN frames, b \in DOMAIN frames :
        PersistedInOrder(a, b) =>
            /\ frames[a].saved.id < frames[b].saved.id
            /\ frames[a].saved.createdAt < frames[b].saved.createdAt

\* C13, amended: messages of one socket are persisted in arrival order with
\* strictly increasing ids and timestamps that never decrease (two messages
\* created within the same millisecond carry the same timestamp).
C13_OrderWithinConnection ==
    \A a \in DOMAIN frames, b \in DOMAIN frames :
        PersistedInOrder(a, b) =>
            /\ \E k \in DOMAIN messages : messages[k].id = frames[a].saved.id
            /\ \E k \in DOMAIN messages : messages[k].id = frames[b].saved.id
            /\ PlaceOf(frames[a].saved.id) < PlaceOf(frames[b].saved.id)
            /\ frames[a].saved.id < frames[b].saved.id
            /\ frames[a].saved.createdAt <= frames[b].saved.createdAt
            /\ messages[PlaceOf(frames[a].saved.id)].createdAt = frames[a].saved.createdAt
            /\ messages[PlaceOf(frames[b].saved.id)].createdAt = frames[b].saved.createdAt

\* Two messages of one socket were persisted around a message of another
\* socket, the later one within the same millisecond as the one before it.
C13_Witness ==
    \E a \in DOMAIN frames, b \in DOMAIN frames, c \in DOMAIN frames :
        /\ PersistedInOrder(a, b)
        /\ a < c /\ c < b
        /\ frames[c].sock # frames[a].sock
        /\ IsCreate(c) /\ frames[c].callOk
        /\ frames[c].saved.createdAt = frames[b].saved.createdAt

\* -------------------------------------------------------------------- C14
\* A resolved markMessagesAsRead(receiver, sender) was called after frame fid
\* had been handled, by a mark_read frame or by a request for the history.
MarkedAfter(fid, receiver, sender) ==
    \/ \E g \in DOMAIN frames :
        /\ g > fid
        /\ frames[g].call = "markMessagesAsRead" /\ frames[g].callOk
        /\ frames[g].uid = receiver /\ frames[g].data.senderId = sender
    \/ \E h \in DOMAIN fetches :
        /\ fetches[h].stage \in {"mark", "200"} /\ fetches[h].callOk
        /\ fetches[h].at >= fid
        /\ fetches[h].user = receiver /\ fetches[h].other = sender

\* The message frame fid persisted is in the history of its pair, as it was
\* created, and unread unless the pair was marked read afterwards.
Retrievable(fid) ==
    LET m == frames[fid].saved
        list == GetMessagesBetweenUsers(messages, m.senderId, m.receiverId)
    IN  \E k \in DOMAIN list :
            /\ list[k].id = m.id
            /\ [list[k] EXCEPT !.isRead = FALSE] = m
            /\ list[k].isRead => MarkedAfter(fid, m.receiverId, m.senderId)

\* C14 (durability when the receiver is offline): a persisted message whose
\* delivery attempt found no live binding of the receiver (nothing was pushed)
\* is confirmed to its sender with one message_sent, and every persisted
\* message is returned by getMessagesBetweenUsers(sender, receiver), with
\* isRead = false until a mark-read of that pair.
C14_DurableWhenOffline ==
    \A fid \in DOMAIN frames :
        (IsCreate(fid) /\ frames[fid].callOk) =>
            /\ Retrievable(fid)
            /\ (Completed(fid) /\ SentFor(fid, "message") = {}) =>
                /\ Cardinality(SentFor(fid, "message_sent")) = 1
                /\ \A i \in SentFor(fid, "message_sent") :
                    sent[i].to = frames[fid].sock /\ sent[i].msg = frames[fid].saved

\* The receiver's socket had closed, the sender got its confirmation and no
\* push was made; the message is stored unread.
C14_Witness ==
    \E fid \in DOMAIN frames :
        /\ IsCreate(fid) /\ frames[fid].callOk /\ Completed(fid)
        /\ frames[fid].saved.receiverId # frames[fid].saved.senderId
        /\ LiveBinding(frames[fid].saved.receiverId) = NoSocket
        /\ SentFor(fid, "message") = {}
        /\ SentFor(fid, "message_sent") # {}
        /\ ~messages[frames[fid].saved.id].isRead

\* -------------------------------------------------------------------- C15
\* C15 (message shape validation), as claimed: a message frame on an
\* authenticated connection whose content is empty with no imageData, whose
\* content is not a string or whose receiverId is no identity is rejected
\* before persistence: no store call, one validation error.
C15_ShapeRejected ==
    \A fid \in DOMAIN frames :
        LET d == frames[fid].data IN
        (/\ d.type = "message"
         /\ Truthy(frames[fid].uid)
         /\ \/ (d.content = "" /\ ImageOrNull(d.imageData) = NullImage)
            \/ d.content = NotAString
            \/ d.receiverId \notin Users) =>
            /\ frames[fid].call = "none"
            /\ frames[fid].outcome = "zod_error"

\* -------------------------------------------------------------------- C16
\* The stored messages exchanged by a and b, in either direction.
OfPair(a, b) ==
    {i \in DOMAIN messages :
        \/ (messages[i].senderId = a /\ messages[i].receiverId = b)
        \/ (messages[i].senderId = b /\ messages[i].receiverId = a)}

\* C16: getMessagesBetweenUsers(a, b) holds each stored message of the pair
\* {a, b} exactly once and nothing else, oldest first, and equals
\* getMessagesBetweenUsers(b, a).
C16_ConversationHistory ==
    \A a \in Users, b \in Users :
        LET list == GetMessagesBetweenUsers(messages, a, b) IN
        /\ Len(list) = Cardinality(OfPair(a, b))
        /\ \A i \in OfPair(a, b) : \E k \in DOMAIN list : list[k] = messages[i]
        /\ \A k \in DOMAIN list : \E i \in OfPair(a, b) : list[k] = messages[i]
        /\ \A k \in DOMAIN list, l \in DOMAIN list :
            k < l => list[k].createdAt <= list[l].createdAt
        /\ list = GetMessagesBetweenUsers(messages, b, a)

\* Two users have written to each other: the history of the pair holds a
\* message of each direction.
C16_Witness ==
    \E a \in Users, b \in Users :
        /\ a # b
        /\ \E k \in DOMAIN GetMessagesBetweenUsers(messages, a, b),
              l \in DOMAIN GetMessagesBetweenUsers(messages, a, b) :
            /\ k < l
            /\ GetMessagesBetweenUsers(messages, a, b)[k].senderId = b
            /\ GetMessagesBetweenUsers(messages, a, b)[l].senderId = a

\* -------------------------------------------------------------------- C17
\* C17 (message immutability): every message a frame persisted is still in
\* the store under its id, and its id, senderId, receiverId, content, imageData
\* and createdAt are the ones it was created with; only isRead may differ.
C17_MessageImmutable ==
    \A fid \in DOMAIN frames :
        (IsCreate(fid) /\ frames[fid].callOk) =>
            /\ frames[fid].saved.id \in DOMAIN messages
            /\ [messages[frames[fid].saved.id] EXCEPT !.isRead = FALSE] = frames[fid].saved

\* A message has been marked read and is otherwise as created.
C17_Witness ==
    \E fid \in DOMAIN frames :
        /\ IsCreate(fid) /\ frames[fid].callOk
        /\ messages[frames[fid].saved.id].isRead
        /\ [messages[frames[fid].saved.id] EXCEPT !.isRead = FALSE] = frames[fid].saved

\* -------------------------------------------------------------------- C18
\* The step calls markMessagesAsRead(receiver, sender): it starts the handler
\* of a mark_read frame, or it is the second call of a request for the history.
MarkCalled(receiver, sender) ==
    \/ /\ Arrives
       /\ Arrived.call = "markMessagesAsRead"
       /\ Arrived.uid = receiver /\ Arrived.data.senderId = sender
    \/ \E h \in DOMAIN fetches :
       /\ fetches[h].stage = "get" /\ fetches'[h].stage = "mark"
       /\ fetches[h].user = receiver /\ fetches[h].other = sender

C18_Step ==
    /\ \A i \in DOMAIN messages' : i \notin DOMAIN messages => ~messages'[i].isRead
    /\ \A i \in DOMAIN messages :
        /\ i \in DOMAIN messages'
        /\ messages[i].isRead => messages'[i].isRead
        /\ messages'[i] # messages[i] =>
            MarkCalled(messages[i].receiverId, messages[i].senderId)

\* C18 (read-flag lifecycle): a message is created unread; a stored message
\* changes only in a step that calls markMessagesAsRead(R, S) and only if its
\* receiver is R and its sender is S; isRead never returns to false.
C18_ReadFlagLifecycle == [][C18_Step]_vars

\* markMessagesAsRead(R, S) resolved while a message from R to S was stored:
\* that message is still unread.
C18_Witness ==
    \E fid \in DOMAIN frames :
        /\ IsCreate(fid) /\ frames[fid].callOk
        /\ MarkedAfter(fid, frames[fid].saved.senderId, frames[fid].saved.receiverId)
        /\ frames[fid].saved.senderId # frames[fid].saved.receiverId
        /\ ~messages[frames[fid].saved.id].isRead

\* -------------------------------------------------------------------- C19
\* The frames that are valid message frames on an authenticated connection.
ValidMessageFrame(fid) ==
    /\ frames[fid].data.type = "message"
    /\ Truthy(frames[fid].uid)
    /\ frames[fid].data.content # NotAString
    /\ frames[fid].data.receiverId \in Users

\* C19 (exactly-once creation, unique ids): createMessage is called for the
\* valid message frames of authenticated connections and for no other frame;
\* each call that resolved added exactly one record, so the store holds as
\* many records as there are such calls; the ids are 1, 2, 3, ... in the order
\* of creation, hence pairwise distinct and without gaps.
C19_ExactlyOnceCreation ==
    /\ \A fid \in DOMAIN frames : IsCreate(fid) <=> ValidMessageFrame(fid)
    /\ Len(messages) = Cardinality({fid \in DOMAIN frames : IsCreate(fid) /\ frames[fid].callOk})
    /\ \A fid \in DOMAIN frames, g \in DOMAIN frames :
        (IsCreate(fid) /\ frames[fid].callOk /\ IsCreate(g) /\ frames[g].callOk /\ fid # g) =>
            frames[fid].saved.id # frames[g].saved.id
    /\ \A i \in DOMAIN messages : messages[i].id = i
    /\ nextMessageId = Len(messages) + 1

\* Two connections have each persisted a message while the handler of the
\* other was still waiting: the ids are 1 and 2.
C19_Witness ==
    \E fid \in DOMAIN frames, g \in DOMAIN frames :
        /\ fid < g
        /\ frames[fid].sock # frames[g].sock
        /\ IsCreate(fid) /\ frames[fid].callOk
        /\ IsCreate(g) /\ frames[g].callOk
        /\ fid \in pending /\ g \in pending
        /\ frames[fid].saved.id = 1 /\ frames[g].saved.id = 2

\* -------------------------------------------------------------------- C20
\* C20 (malformed auth frame is ignored), as claimed: the step that handles an
\* auth frame without a valid userId leaves the closure variables and the
\* registry as they were.
C20_MalformedAuthIgnored ==
    [][(Arrives /\ Arrived.data.type = "auth" /\ Arrived.data.userId \notin Users) =>
        UNCHANGED <<userId, connections>>]_vars

\* -------------------------------------------------------------------- C21
\* The step handles an auth frame of socket s2 naming a user that the registry
\* binds to another socket s1.
Rebinds(s1, s2) ==
    /\ Arrives
    /\ Arrived.data.type = "auth"
    /\ Arrived.sock = s2
    /\ Arrived.data.userId \in Users
    /\ connections[Arrived.data.userId] = s1
    /\ s1 # s2

C21_BindStep ==
    \A s1 \in Sockets, s2 \in Sockets :
        Rebinds(s1, s2) =>
            /\ connections'[Arrived.data.userId] = s2
            /\ \A k \in RegistryKeys : k # Arrived.data.userId => connections'[k] = connections[k]
            /\ readyState' = readyState
            /\ userId'[s1] = userId[s1]
            /\ pending' = pending /\ sent' = sent /\ messages' = messages

\* The socket of frame fid authenticated as user u (its last auth frame before
\* fid), and the auth frame a of another socket then took the entry of u.
Displaced(fid, a, u) ==
    /\ a < fid
    /\ frames[a].data.type = "auth"
    /\ frames[a].sock # frames[fid].sock
    /\ frames[a].data.userId = u
    /\ \E b \in DOMAIN frames :
        /\ b < a
        /\ frames[b].data.type = "auth"
        /\ frames[b].sock = frames[fid].sock
        /\ frames[b].data.userId = u
        /\ \A c \in DOMAIN frames :
            (b < c /\ c < fid /\ frames[c].sock = frames[fid].sock) => frames[c].data.type # "auth"

\* A message frame of the displaced socket is handled as that of any
\* authenticated connection: it is persisted under the identity of the socket
\* and every response to it is written to that socket, the confirmation
\* included.
C21_StillAuthenticated ==
    \A fid \in DOMAIN frames, a \in DOMAIN frames, u \in Users :
        (Displaced(fid, a, u) /\ frames[fid].data.type = "message") =>
            /\ frames[fid].uid = u
            /\ ValidMessageFrame(fid) => IsCreate(fid)
            /\ (IsCreate(fid) /\ frames[fid].callOk) =>
                /\ frames[fid].saved.senderId = frames[fid].uid
                /\ messages[frames[fid].saved.id].senderId = frames[fid].uid
            /\ \A i \in SentFor(fid, "message_sent") \cup SentFor(fid, "error") :
                sent[i].to = frames[fid].sock
            /\ frames[fid].outcome = "ok" =>
                /\ Cardinality(SentFor(fid, "message_sent")) = 1
                /\ \A i \in SentFor(fid, "message_sent") : sent[i].msg = frames[fid].saved

\* C21 (bind overwrites without closing): when socket s2 authenticates as a
\* user bound to socket s1, the entry of that user becomes s2 and no other
\* entry changes; s1 is not closed and its closure variable userId is left as
\* it was, so its message frames still pass the guard, are persisted under
\* that identity and are answered on s1.
C21_BindOverwrites == []C21_StillAuthenticated /\ [][C21_BindStep]_vars

\* A socket lost the entry of its user to another socket, stayed open, and a
\* message it sent afterwards was persisted under that user and confirmed on it.
C21_Witness ==
    \E fid \in DOMAIN frames, a \in DOMAIN frames :
        /\ Displaced(fid, a, frames[fid].uid)
        /\ Truthy(frames[fid].uid)
        /\ connections[frames[fid].uid] = frames[a].sock
        /\ readyState[frames[fid].sock] = "OPEN"
        /\ IsCreate(fid) /\ frames[fid].callOk
        /\ frames[fid].saved.senderId = frames[fid].uid
        /\ \E i \in SentFor(fid, "message_sent") : sent[i].to = frames[fid].sock

\* -------------------------------------------------------------------- C22
\* The responses: message_sent and error frames written to the socket of the
\* frame that caused them.
IsResponse(i) ==
    /\ sent[i].type \in {"message_sent", "error"}
    /\ sent[i].to = frames[sent[i].fid].sock

C22_ResponsesInArrivalOrder ==
    \A i \in DOMAIN sent, j \in DOMAIN sent :
        (i < j /\ IsResponse(i) /\ IsResponse(j) /\ sent[i].to = sent[j].to) =>
            sent[i].fid <= sent[j].fid

C22_RunToCompletion ==
    Arrives => \A fid \in pending : frames[fid].sock # Arrived.sock

\* C22 (per-connection processing order), as claimed: a frame is handled only
\* when the handlers of the earlier frames of its connection have completed,
\* and the responses on a socket are written in the order of the frames that
\* caused them.
C22_PerConnectionOrder == []C22_ResponsesInArrivalOrder /\ [][C22_RunToCompletion]_vars

\* -------------------------------------------------------------------- C23
\* Socket s is open and is not the socket of the suspended handler fid.
OtherOpen(fid, s) == frames[fid].sock # s /\ readyState[s] = "OPEN"

\* C23 (isolation of a pending store call): while the handler of a frame is
\* suspended at its store call, every other open connection can have an auth
\* frame handled (the registry is written), can have a message and a mark_read
\* frame handled once it is authenticated (the store is written), can have its
\* own suspended handlers completed (the registry is read, pushes and
\* confirmations are written) and can close, and none of these steps completes
\* or disturbs the suspended handler.
C23_PendingCallIsolated ==
    \A fid \in pending, s \in Sockets :
        OtherOpen(fid, s) =>
            /\ \A d \in AuthFrames : ENABLED (OnAuth(s, d) /\ fid \in pending')
            /\ Authenticated(s) =>
                /\ \A d \in MessageFrames : ENABLED (OnChatMessage(s, d) /\ fid \in pending')
                /\ \A d \in MarkReadFrames : ENABLED (OnMarkRead(s, d) /\ fid \in pending')
            /\ \A g \in pending :
                frames[g].sock = s =>
                    ENABLED ((ResumeMessage(g) \/ ResumeMarkRead(g)) /\ fid \in pending')
            /\ ENABLED (Close(s) /\ fid \in pending')

\* While a message handler of one connection is still suspended, another
\* connection has since authenticated, persisted a message, been pushed that
\* message and closed, which removed its registry entry.
C23_Witness ==
    \E fid \in pending, a \in DOMAIN frames, m \in DOMAIN frames :
        /\ fid < a /\ a < m
        /\ IsCreate(fid)
        /\ frames[a].sock # frames[fid].sock /\ frames[m].sock = frames[a].sock
        /\ frames[a].data.type = "auth" /\ Truthy(frames[a].data.userId)
        /\ IsCreate(m) /\ frames[m].callOk /\ Completed(m)
        /\ \E i \in SentFor(m, "message") : sent[i].to = frames[m].sock /\ sent[i].ok
        /\ readyState[frames[m].sock] = "CLOSED"
        /\ connections[frames[a].data.userId] = NoSocket

\* -------------------------------------------------------------------- C24
\* Frame fid is a message frame handled on an authenticated connection.
HandledMessage(fid) ==
    /\ fid \in DOMAIN frames
    /\ frames[fid].data.type = "message"
    /\ Truthy(frames[fid].uid)

\* The answers to frame fid: message_sent and error frames on its socket.
Answers(fid) ==
    {i \in DOMAIN sent :
        /\ sent[i].fid = fid
        /\ sent[i].to = frames[fid].sock
        /\ sent[i].type \in {"message_sent", "error"}}

AnsweredOnce(fid) ==
    /\ fid \in DOMAIN frames
    /\ Completed(fid)
    /\ Cardinality(Answers(fid)) = 1
    /\ \A i \in Answers(fid) : sent[i].open

SenderClosed(fid) == fid \in DOMAIN frames /\ readyState[frames[fid].sock] = "CLOSED"

\* Never both, and never neither once the handler has completed.
C24_OneAnswer ==
    \A fid \in DOMAIN frames :
        HandledMessage(fid) =>
            /\ Cardinality(Answers(fid)) <= 1
            /\ Completed(fid) => Cardinality(Answers(fid)) = 1
            /\ ~Completed(fid) => Answers(fid) = {}

\* C24 (response liveness): when every store call completes, a message frame
\* handled on an authenticated connection whose socket stays open is
\* eventually answered on that socket with exactly one frame, message_sent or
\* error; at no time has it been answered twice.
C24_ResponseLiveness ==
    /\ []C24_OneAnswer
    /\ \A fid \in 1..MaxFrames :
        [](HandledMessage(fid) => <>(AnsweredOnce(fid) \/ SenderClosed(fid)))

\* On one open socket a message frame was answered with message_sent and
\* another, whose store call was rejected, with error.
C24_Witness ==
    \E fid \in DOMAIN frames, g \in DOMAIN frames :
        /\ frames[fid].sock = frames[g].sock
        /\ readyState[frames[fid].sock] = "OPEN"
        /\ HandledMessage(fid) /\ AnsweredOnce(fid)
        /\ HandledMessage(g) /\ AnsweredOnce(g)
        /\ \A i \in Answers(fid) : sent[i].type = "message_sent"
        /\ \A i \in Answers(g) : sent[i].type = "error"
        /\ frames[g].outcome = "store_fail"

\* -------------------------------------------------------------------- C25
\* The frame without its senderId field.
WithoutSender(d) == [d EXCEPT !.senderId = Undef]

\* Every persisted message, and every copy of it written to a socket, has
\* the identity of the originating connection as its senderId.
C25_SenderIsConnection ==
    /\ \A fid \in DOMAIN frames :
        (IsCreate(fid) /\ frames[fid].callOk) =>
            /\ frames[fid].saved.senderId = frames[fid].uid
            /\ messages[frames[fid].saved.id].senderId = frames[fid].uid
    /\ \A i \in DOMAIN sent :
        sent[i].type \in {"message", "message_sent"} =>
            sent[i].msg.senderId = frames[sent[i].fid].uid

\* What the step that handles a message frame does is determined by the state
\* and the frame without its senderId field.
C25_Step ==
    (Arrives /\ Arrived.data.type = "message") =>
        LET d == WithoutSender(Arrived.data)
            valid == Truthy(Arrived.uid) /\ d.receiverId \in Users /\ d.content # NotAString
            stored == [id |-> nextMessageId, senderId |-> Arrived.uid,
                       receiverId |-> d.receiverId, content |-> d.content,
                       imageData |-> IF d.imageData \in {NoImage, ""} THEN NullImage
                                     ELSE d.imageData,
                       createdAt |-> now', isRead |-> FALSE]
        IN  /\ (Arrived.call = "createMessage") <=> valid
            /\ (valid /\ Arrived.callOk) =>
                /\ messages' = Append(messages, stored)
                /\ Arrived.saved = stored
            /\ ~(valid /\ Arrived.callOk) => messages' = messages
            /\ (Truthy(Arrived.uid) /\ ~valid) =>
                /\ Len(sent') = Len(sent) + 1
                /\ sent'[Len(sent')].type = "error"
                /\ sent'[Len(sent')].to = Arrived.sock
            /\ (valid \/ ~Truthy(Arrived.uid)) => sent' = sent
            /\ UNCHANGED <<readyState, userId, connections>>

\* C25 (sender identity cannot be spoofed): the senderId of every persisted
\* message is the identity its connection had when the frame was handled, and
\* a senderId field inside the message frame changes neither the store nor
\* any written frame.
C25_NoSpoofing == []C25_SenderIsConnection /\ [][C25_Step]_vars

\* A message frame that named another user as its sender was persisted and
\* confirmed under the identity of its connection.
C25_Witness ==
    \E fid \in DOMAIN frames :
        /\ IsCreate(fid) /\ frames[fid].callOk
        /\ frames[fid].data.senderId \in Users
        /\ frames[fid].data.senderId # frames[fid].uid
        /\ messages[frames[fid].saved.id].senderId = frames[fid].uid
        /\ \E i \in SentFor(fid, "message_sent") : sent[i].msg.senderId = frames[fid].uid

\* -------------------------------------------------------------------- C26
\* C26 (read-receipt consistency under interleaving), as claimed: the `by`
\* field of every messages_read frame is the receiverId that was passed to the
\* markMessagesAsRead call of the frame that caused it.
C26_ReceiptNamesCaller ==
    \A i \in DOMAIN sent :
        sent[i].type = "messages_read" => sent[i].by = frames[sent[i].fid].uid

\* -------------------------------------------------------------------- C27
C27_EntryMatchesIdentity ==
    \A u \in Users : connections[u] # NoSocket => userId[connections[u]] = u

\* The pushes a step writes go to a socket authenticated as their addressee.
C27_PushStep ==
    \A i \in DOMAIN sent' :
        i > Len(sent) =>
            /\ sent'[i].type = "message" => userId[sent'[i].to] = sent'[i].msg.receiverId
            /\ sent'[i].type = "messages_read" =>
                userId[sent'[i].to] = frames[sent'[i].fid].data.senderId

\* C27 (pushes reach only the addressed identity), as claimed: every registry
\* entry u -> s points to a socket whose current identity is u, and no push
\* addressed to u is written to a socket authenticated as another user.
C27_PushesReachAddressee == []C27_EntryMatchesIdentity /\ [][C27_PushStep]_vars

\* -------------------------------------------------------------------- C28
\* C28 (no stale registry entries), as claimed: no registry entry references a
\* socket whose close event has been handled.
C28_NoStaleEntries ==
    \A k \in RegistryKeys :
        connections[k] # NoSocket => readyState[connections[k]] # "CLOSED"

\* -------------------------------------------------------------------- C29
\* C29 (no writes after close), as claimed: every outbound frame was written
\* to a socket that was open at the write.
C29_NoWritesAfterClose == \A i \in DOMAIN sent : sent[i].open

\* -------------------------------------------------------------------- C30
\* A step that turns isRead of a message to true while the sender of the
\* message has an open bound socket either writes messages_read to that socket
\* or leaves the handler of a mark_read frame for that sender suspended.
C30_FlipStep ==
    \A i \in DOMAIN messages :
        (/\ ~messages[i].isRead
         /\ messages'[i].isRead
         /\ LiveBinding(messages[i].senderId) # NoSocket) =>
            \/ \E j \in NewReceipts : sent'[j].to = LiveBinding(messages[i].senderId)
            \/ /\ Arrives
               /\ Arrived.call = "markMessagesAsRead"
               /\ Arrived.data.senderId = messages[i].senderId
               /\ Len(frames') \in pending'

\* The suspended handler of a mark_read frame, when it completes after a
\* resolved store call, writes messages_read to the open socket bound to the
\* sender.
C30_ResumeStep(fid) ==
    (/\ fid \in pending /\ fid \notin pending'
     /\ IsMarkRead(fid) /\ frames[fid].callOk
     /\ LiveBinding(frames[fid].data.senderId) # NoSocket) =>
        \E j \in NewReceipts : sent'[j].to = LiveBinding(frames[fid].data.senderId)

\* C30 (read receipts track read state), as claimed: whenever isRead of a
\* stored message turns true, by a mark_read frame or by the history route,
\* while the sender of the message has an open bound socket, a messages_read
\* frame is sent to that sender.
C30_ReceiptOnEveryRead ==
    [][C30_FlipStep /\ \A fid \in DOMAIN frames : C30_ResumeStep(fid)]_vars

====
